---- MODULE Spec2Model ----
(***************************************************************************)
(* A model of the programs authored in the carefree-learn example          *)
(* sources: the Titanic notebook, the Iris notebook and the run_sklearn.py *)
(* script the Iris notebook documents.  The kernel runs one program from   *)
(* its first statement to its last; every statement is one action.  The    *)
(* calls into the cflearn framework are modelled by what the notebooks     *)
(* document and record of them.                                            *)
(***************************************************************************)
EXTENDS Integers, Sequences, FiniteSets, TLC

VARIABLES
    program,    \* which program the interpreter runs
    pc,         \* the statement the interpreter is at
    ns,         \* the interpreter's namespace: name -> value
    calls,      \* the statements executed so far, in order
    succs,      \* statement -> the statements that have followed it
    fs,         \* the file system: path -> content
    io,         \* the file accesses so far: [path, mode, by]
    tasks,      \* the tasks of the framework call in progress
    pool,       \* the framework's task runner: [active, num_jobs]
    spc,        \* the statement a run of run_sklearn.py is at
    sns,        \* the namespace of that run
    err         \* the exceptions raised so far: [at, kind, origin]

kernel == <<program, pc, ns>>
runner == <<tasks, pool>>
script == <<spc, sns>>
vars == <<program, pc, ns, calls, succs, fs, io, tasks, pool, spc, sns, err>>

(* ------------------------------ bounds -------------------------------- *)

MaxFileLen == 4
MaxClasses == 2
MaxRows == 3

(* ------------------------------- text --------------------------------- *)

Char == {"7", ",", " ", "\n"}
Whitespace == {" ", "\n"}
ClassValues == {0, 1}

SeqsUpTo(S, n) == UNION {[1..k -> S] : k \in 0..n}

Min(a, b) == IF a < b THEN a ELSE b

\* "PassengerId,Survived\n", the argument of the first f.write
Header == <<"P","a","s","s","e","n","g","e","r","I","d",",",
            "S","u","r","v","i","v","e","d">>
HeaderLine == Header \o <<"\n">>

\* the index of the first x in s at or after position i, 0 when there is none
RECURSIVE IndexFrom(_, _, _)
IndexFrom(s, x, i) ==
    IF i > Len(s) THEN 0
    ELSE IF s[i] = x THEN i
    ELSE IndexFrom(s, x, i + 1)

\* file.readline() at offset pos: the text up to and including the next
\* newline, or the rest of the file
LineAt(s, pos) ==
    LET nl == IndexFrom(s, "\n", pos + 1)
    IN  IF nl = 0 THEN SubSeq(s, pos + 1, Len(s)) ELSE SubSeq(s, pos + 1, nl)

RECURSIVE LStrip(_)
LStrip(s) ==
    IF s # <<>> /\ Head(s) \in Whitespace THEN LStrip(Tail(s)) ELSE s

RECURSIVE RStrip(_)
RStrip(s) ==
    IF s # <<>> /\ s[Len(s)] \in Whitespace
    THEN RStrip(SubSeq(s, 1, Len(s) - 1)) ELSE s

\* str.strip()
Strip(s) == RStrip(LStrip(s))

\* str.split(",")[0]
FirstField(s) ==
    LET c == IndexFrom(s, ",", 1)
    IN  IF c = 0 THEN s ELSE SubSeq(s, 1, c - 1)

\* the first field of the line as read, its line break included
TestIdUnstripped(line) == FirstField(line)

\* line.strip().split(",")[0]
TestId(line) == FirstField(Strip(line))

Digit(d) == CASE d = 0 -> "0" [] d = 1 -> "1" [] d = 2 -> "2" [] d = 3 -> "3"
              [] d = 4 -> "4" [] d = 5 -> "5" [] d = 6 -> "6" [] d = 7 -> "7"
              [] d = 8 -> "8" [] d = 9 -> "9"

\* the text of a non-negative int, as an f-string renders c.item()
RECURSIVE Decimal(_)
Decimal(n) ==
    IF n < 10 THEN <<Digit(n)>> ELSE Decimal(n \div 10) \o <<Digit(n % 10)>>

\* f"{test_id},{c.item()}\n"
SubmissionRow(test_id, c) == test_id \o <<",">> \o Decimal(c) \o <<"\n">>

(* --------------------------- the interpreter -------------------------- *)

\* name = value
Bind(k, v) == (k :> v) @@ ns

\* a file access: by "authored" when the authored code opens the file itself,
\* by "framework" when the framework does on the authored code's request
Access(path, mode, by) == [path |-> path, mode |-> mode, by |-> by]

\* statement p has run and q is next
Step(p, q) ==
    /\ pc = p
    /\ pc' = q
    /\ calls' = Append(calls, p)
    /\ succs' = [succs EXCEPT ![p] = @ \cup {q}]

\* open(path, mode): the file object
Open(path, mode) == [path |-> path, mode |-> mode, pos |-> 0, closed |-> FALSE]

\* ndarray.ravel() of an array of rows
RECURSIVE Ravel(_)
Ravel(a) == IF a = <<>> THEN <<>> ELSE Head(a) \o Ravel(Tail(a))

(* --------------------------- the framework ---------------------------- *)

\* the samples the Titanic run reports for train.csv
TitanicTrainSamples == 791
TitanicValidSamples == 100

\* MLData.fit: the rows of the file are split into a training and a
\* validation set; num_split, when given, is the size of the validation set
MLDataFit(cfg, rows, default_valid) ==
    LET valid == IF "num_split" \in DOMAIN cfg THEN cfg.num_split
                 ELSE default_valid
    IN  [train_samples |-> rows - valid, valid_samples |-> valid]

\* what m.predict(loader, return_classes=True) may return: an [n, 1] array
ClassArrays == SeqsUpTo({<<c>> : c \in ClassValues}, MaxClasses)

(* --------------------------- the task runner -------------------------- *)

\* the tasks of repeat_ml(data, config, models=..., num_repeat=n): one per
\* model name and repetition, of the config's model when models is not given
RepeatMlTasks(config, kw) ==
    LET models == IF "models" \in DOMAIN kw THEN kw.models
                  ELSE <<config.model_name>>
        n == kw.num_repeat
    IN  [k \in 1..(Len(models) * n) |->
            [model |-> models[((k - 1) \div n) + 1], workspace |-> <<>>,
             run_command |-> "", state |-> "pending", worker |-> 0, runs |-> 0]]

\* the processes a call asks for: num_jobs, one when it is not given
NumJobs(kw) == IF "num_jobs" \in DOMAIN kw THEN kw.num_jobs ELSE 1

Running(ts) == {k \in DOMAIN ts : ts[k].state = "running"}
Pending(ts) == {k \in DOMAIN ts : ts[k].state = "pending"}
AllDone(ts) == \A k \in DOMAIN ts : ts[k].state = "done"

FirstOf(S) == CHOOSE k \in S : \A j \in S : k <= j

\* the task an idle process takes next
TakeFrom(ts) == FirstOf(Pending(ts))

Idle(w) == \A k \in Running(tasks) : tasks[k].worker # w

\* what run_sklearn.py finds when a task with a run command starts it
TaskEnv(t) ==
    [model |-> t.model, data |-> "data", x_ndarray |-> TRUE,
     y_ndarray |-> TRUE, workplace |-> t.workspace]

\* a call starts the runner on its tasks
StartTasks(ts, jobs) ==
    /\ ~pool.active
    /\ tasks' = ts
    /\ pool' = [active |-> TRUE, num_jobs |-> jobs]

\* a process of the runner takes a task and starts it; a task of an
\* experiment gets its workspace, and its run command is executed
WorkerTake(w) ==
    /\ pool.active
    /\ w \in 1..pool.num_jobs
    /\ Idle(w)
    /\ Pending(tasks) # {}
    /\ LET k == TakeFrom(tasks)
           t == tasks[k]
       IN  /\ tasks' = [tasks EXCEPT ![k] = [@ EXCEPT !.state = "running",
                                                     !.worker = w,
                                                     !.runs = @ + 1]]
           /\ IF t.workspace # <<>>
              THEN /\ fs' = (Append(t.workspace, "__meta__.json") :> <<t.model>>) @@ fs
                   /\ io' = io \cup {Access(Append(t.workspace, "__meta__.json"),
                                            "w", "framework")}
              ELSE UNCHANGED <<fs, io>>
           /\ IF t.run_command # ""
              THEN /\ spc = "s_off"
                   /\ spc' = "s_get_info"
                   /\ sns' = ("_env" :> TaskEnv(t))
              ELSE UNCHANGED script
    /\ UNCHANGED <<kernel, calls, succs, pool, err>>

\* a process of the runner finishes its task; a carefree-learn task of an
\* experiment has saved its pipeline
WorkerFinish(w) ==
    /\ pool.active
    /\ \E k \in Running(tasks) :
        LET t == tasks[k]
        IN  /\ t.worker = w
            /\ tasks' = [tasks EXCEPT ![k] = [@ EXCEPT !.state = "done",
                                                      !.worker = 0]]
            /\ IF t.run_command # ""
               THEN /\ spc \in {"s_exit", "s_raised"}
                    /\ spc' = "s_off"
                    /\ sns' = <<>>
                    /\ UNCHANGED <<fs, io>>
               ELSE /\ UNCHANGED script
                    /\ IF t.workspace # <<>>
                       THEN /\ fs' = (Append(t.workspace, "pipeline") :> <<t.model>>)
                                     @@ (Append(t.workspace, "__dl_config__") :> <<>>)
                                     @@ fs
                            /\ io' = io \cup
                                 {Access(Append(t.workspace, "pipeline"), "w", "framework"),
                                  Access(Append(t.workspace, "__dl_config__"), "w", "framework")}
                       ELSE UNCHANGED <<fs, io>>
    /\ UNCHANGED <<kernel, calls, succs, pool, err>>

\* the result a call returns once its tasks are done
Results(ts) ==
    [workspaces |-> [k \in DOMAIN ts |-> ts[k].workspace],
     workspace_keys |-> [k \in DOMAIN ts |-> <<ts[k].model, "0">>]]

\* the call returns: the runner stops
StopTasks ==
    /\ pool.active
    /\ AllDone(tasks)
    /\ pool' = [active |-> FALSE, num_jobs |-> 0]
    /\ UNCHANGED tasks

RunnerNext == \E w \in 1..pool.num_jobs : WorkerTake(w) \/ WorkerFinish(w)

(* ----------------------------- run_sklearn.py ------------------------- *)

ScriptPoints ==
    {"s_get_info", "s_meta", "s_data", "s_assert_data", "s_prepare",
     "s_loader", "s_dataset", "s_xy", "s_assert_x", "s_assert_y", "s_model",
     "s_if_decision_tree", "s_base_decision_tree", "s_elif_random_forest",
     "s_base_random_forest", "s_raise", "s_sk_model", "s_fit", "s_open_pkl",
     "s_dump", "s_close_pkl", "s_exit", "s_raised"}

SBind(k, v) == (k :> v) @@ sns

\* statement p of the script has run and q is next
SStep(p, q) ==
    /\ spc = p
    /\ spc' = q
    /\ calls' = Append(calls, p)
    /\ succs' = [succs EXCEPT ![p] = @ \cup {q}]

\* an exception nothing catches ends the script
Raised(p, kind) == [at |-> p, kind |-> kind, origin |-> "authored"]

\* where `assert cond` goes
AssertNext(cond, q) == IF cond THEN q ELSE "s_raised"

\* assert cond, at statement p
SAssert(p, cond, q) ==
    /\ SStep(p, AssertNext(cond, q))
    /\ err' = IF AssertNext(cond, q) = "s_raised"
              THEN err \cup {Raised(p, "AssertionError")} ELSE err
    /\ UNCHANGED <<kernel, runner, sns, fs, io>>

\* info = get_info()
SGetInfo ==
    /\ SStep("s_get_info", "s_meta")
    /\ sns' = SBind("info", [meta |-> [model |-> sns["_env"].model],
                             data |-> sns["_env"].data,
                             workplace |-> sns["_env"].workplace])
    /\ UNCHANGED <<kernel, runner, fs, io, err>>

\* meta = info.meta
SMeta ==
    /\ SStep("s_meta", "s_data")
    /\ sns' = SBind("meta", sns["info"].meta)
    /\ UNCHANGED <<kernel, runner, fs, io, err>>

\* data = info.data
SData ==
    /\ SStep("s_data", "s_assert_data")
    /\ sns' = SBind("data", sns["info"].data)
    /\ UNCHANGED <<kernel, runner, fs, io, err>>

\* assert data is not None
SAssertData == SAssert("s_assert_data", sns["data"] # "None", "s_prepare")

\* data.prepare(None)
SPrepare ==
    /\ SStep("s_prepare", "s_loader")
    /\ UNCHANGED <<kernel, runner, sns, fs, io, err>>

\* loader = data.initialize()[0]
SLoader ==
    /\ SStep("s_loader", "s_dataset")
    /\ sns' = SBind("loader", "loader")
    /\ UNCHANGED <<kernel, runner, fs, io, err>>

\* dataset = loader.get_full_batch()
SDataset ==
    /\ SStep("s_dataset", "s_xy")
    /\ sns' = SBind("dataset", [x_ndarray |-> sns["_env"].x_ndarray,
                                y_ndarray |-> sns["_env"].y_ndarray])
    /\ UNCHANGED <<kernel, runner, fs, io, err>>

\* x, y = dataset[INPUT_KEY], dataset[LABEL_KEY]
SXy ==
    /\ SStep("s_xy", "s_assert_x")
    /\ sns' = ("x" :> sns["dataset"].x_ndarray)
              @@ SBind("y", sns["dataset"].y_ndarray)
    /\ UNCHANGED <<kernel, runner, fs, io, err>>

\* assert isinstance(x, np.ndarray)
SAssertX == SAssert("s_assert_x", sns["x"], "s_assert_y")

\* assert isinstance(y, np.ndarray)
SAssertY == SAssert("s_assert_y", sns["y"], "s_model")

\* model = meta["model"]
SModel ==
    /\ SStep("s_model", "s_if_decision_tree")
    /\ sns' = SBind("model", sns["meta"].model)
    /\ UNCHANGED <<kernel, runner, fs, io, err>>

\* where `if model == "decision_tree"` goes
IfDecisionTreeNext(model) ==
    IF model = "decision_tree" THEN "s_base_decision_tree"
    ELSE "s_elif_random_forest"

SIfDecisionTree ==
    /\ SStep("s_if_decision_tree", IfDecisionTreeNext(sns["model"]))
    /\ UNCHANGED <<kernel, runner, sns, fs, io, err>>

\* base = DecisionTreeClassifier
SBaseDecisionTree ==
    /\ SStep("s_base_decision_tree", "s_sk_model")
    /\ sns' = SBind("base", "DecisionTreeClassifier")
    /\ UNCHANGED <<kernel, runner, fs, io, err>>

\* an else branch that takes every other model for a random forest
ElifRandomForestNextNoRaise(model) == "s_base_random_forest"

\* where `elif model == "random_forest"` goes: to the raise of the else
\* branch for any other model
ElifRandomForestNext(model) ==
    IF model = "random_forest" THEN "s_base_random_forest" ELSE "s_raise"

SElifRandomForest ==
    /\ SStep("s_elif_random_forest", ElifRandomForestNext(sns["model"]))
    /\ UNCHANGED <<kernel, runner, sns, fs, io, err>>

\* base = RandomForestClassifier
SBaseRandomForest ==
    /\ SStep("s_base_random_forest", "s_sk_model")
    /\ sns' = SBind("base", "RandomForestClassifier")
    /\ UNCHANGED <<kernel, runner, fs, io, err>>

\* raise NotImplementedError
SRaise ==
    /\ SStep("s_raise", "s_raised")
    /\ err' = err \cup {Raised("s_raise", "NotImplementedError")}
    /\ UNCHANGED <<kernel, runner, sns, fs, io>>

\* sk_model = base()
SSkModel ==
    /\ SStep("s_sk_model", "s_fit")
    /\ sns' = SBind("sk_model", <<sns["base"]>>)
    /\ UNCHANGED <<kernel, runner, fs, io, err>>

\* sk_model.fit(x, y.ravel())
SFit ==
    /\ SStep("s_fit", "s_open_pkl")
    /\ UNCHANGED <<kernel, runner, sns, fs, io, err>>

\* os.path.join(folder, name)
Join(folder, name) == Append(folder, name)

\* the model saved under another name
SkModelFileRenamed(workplace) == Join(workplace, "model.pkl")

\* the file run_sklearn.py saves its model to
SkModelFile(workplace) == Join(workplace, "sk_model.pkl")

\* with open(os.path.join(info.workplace, "sk_model.pkl"), "wb") as f:
SOpenPkl ==
    LET path == SkModelFile(sns["info"].workplace)
    IN  /\ SStep("s_open_pkl", "s_dump")
        /\ sns' = SBind("f", Open(path, "wb"))
        /\ fs' = (path :> <<>>) @@ fs
        /\ io' = io \cup {Access(path, "wb", "authored")}
        /\ UNCHANGED <<kernel, runner, err>>

\* pickle.dump(sk_model, f)
SDump ==
    /\ SStep("s_dump", "s_close_pkl")
    /\ fs' = [fs EXCEPT ![sns["f"].path] = @ \o sns["sk_model"]]
    /\ UNCHANGED <<kernel, runner, sns, io, err>>

\* the end of the with block closes the file, and the script ends
SClosePkl ==
    /\ SStep("s_close_pkl", "s_exit")
    /\ sns' = SBind("f", [sns["f"] EXCEPT !.closed = TRUE])
    /\ UNCHANGED <<kernel, runner, fs, io, err>>

ScriptNext ==
    \/ SGetInfo \/ SMeta \/ SData \/ SAssertData \/ SPrepare \/ SLoader
    \/ SDataset \/ SXy \/ SAssertX \/ SAssertY \/ SModel \/ SIfDecisionTree
    \/ SBaseDecisionTree \/ SElifRandomForest \/ SBaseRandomForest \/ SRaise
    \/ SSkModel \/ SFit \/ SOpenPkl \/ SDump \/ SClosePkl

\* `python run_sklearn.py` run on its own: what get_info() may find
ModelNames == {"decision_tree", "random_forest", "fcnn"}
ScriptEnvs ==
    [model : ModelNames, data : {"data", "None"}, x_ndarray : BOOLEAN,
     y_ndarray : BOOLEAN, workplace : {<<"_experiment", "task", "0">>}]

RunPoints == {"r_python", "r_wait", "r_done"}

\* the command starts the script
RPython ==
    /\ pc = "r_python"
    /\ pc' = "r_wait"
    /\ spc = "s_off"
    /\ spc' = "s_get_info"
    /\ \E env \in ScriptEnvs : sns' = ("_env" :> env)
    /\ UNCHANGED <<program, ns, calls, succs, fs, io, runner, err>>

\* the command ends when the script does
RExit ==
    /\ pc = "r_wait"
    /\ spc \in {"s_exit", "s_raised"}
    /\ pc' = "r_done"
    /\ UNCHANGED <<program, ns, calls, succs, fs, io, runner, script, err>>

RunNext == RPython \/ RExit

(* ------------------------- the Titanic notebook ----------------------- *)

TitanicPoints ==
    {"t_seed", "t_processor_config", "t_data_fit", "t_config", "t_fit_ml",
     "t_build_loader_train", "t_evaluate", "t_build_loader_test", "t_predict",
     "t_predict_proba", "t_predict_classes", "t_print", "t_open_test",
     "t_readline", "t_for_line", "t_append_id", "t_close_test",
     "t_open_submission", "t_write_header", "t_for_zip", "t_write_row",
     "t_close_submission", "t_done"}

\* the statements of the notebook from its first cell to its last; the
\* bodies of the two loops of the last cell are t_append_id and t_write_row
TitanicStatements ==
    <<"t_seed", "t_processor_config", "t_data_fit", "t_config", "t_fit_ml",
      "t_build_loader_train", "t_evaluate", "t_build_loader_test",
      "t_predict", "t_predict_proba", "t_predict_classes", "t_print",
      "t_open_test", "t_readline", "t_for_line", "t_close_test",
      "t_open_submission", "t_write_header", "t_for_zip",
      "t_close_submission", "t_done">>

\* the notebook with the evaluation cell after the cell that builds the
\* loader of test.csv
TAfterEvaluateMoved(p) ==
    CASE p = "t_build_loader_train" -> "t_build_loader_test"
      [] p = "t_build_loader_test" -> "t_evaluate"
      [] p = "t_evaluate" -> "t_predict"
      [] OTHER -> TitanicStatements[IndexFrom(TitanicStatements, p, 1) + 1]

\* the statement the kernel runs after statement p
TAfter(p) == TitanicStatements[IndexFrom(TitanicStatements, p, 1) + 1]

TestCsv == <<"test.csv">>
TrainCsv == <<"train.csv">>
SubmissionCsv == <<"submission.csv">>

\* seed_everything(123)
TSeed ==
    /\ Step("t_seed", TAfter("t_seed"))
    /\ UNCHANGED <<program, ns, fs, io, runner, script, err>>

\* the keyword arguments of MLBundledProcessorConfig(...)
TitanicProcessorConfig == [label_names |-> <<"Survived">>]

TProcessorConfig ==
    /\ Step("t_processor_config", TAfter("t_processor_config"))
    /\ ns' = Bind("processor_config", TitanicProcessorConfig)
    /\ UNCHANGED <<program, fs, io, runner, script, err>>

\* data = cflearn.MLData.init(processor_config=processor_config).fit("train.csv")
TDataFit ==
    /\ Step("t_data_fit", TAfter("t_data_fit"))
    /\ "processor_config" \in DOMAIN ns
    /\ TrainCsv \in DOMAIN fs
    /\ ns' = Bind("data", MLDataFit(ns["processor_config"],
                                    TitanicTrainSamples + TitanicValidSamples,
                                    TitanicValidSamples))
    /\ io' = io \cup {Access(TrainCsv, "r", "framework")}
    /\ UNCHANGED <<program, fs, runner, script, err>>

\* the keyword arguments of MLConfig(...)
TitanicConfig ==
    [model_name |-> "wnd", loss_name |-> "bce",
     metric_names |-> <<"acc", "auc">>, optimizer_name |-> "sgd"]

TConfig ==
    /\ Step("t_config", TAfter("t_config"))
    /\ "data" \in DOMAIN ns
    /\ ns' = Bind("config", TitanicConfig)
    /\ UNCHANGED <<program, fs, io, runner, script, err>>

\* m = cflearn.api.fit_ml(data, config=config)
TFitMl ==
    /\ Step("t_fit_ml", TAfter("t_fit_ml"))
    /\ {"data", "config"} \subseteq DOMAIN ns
    /\ ns' = Bind("m", [data |-> ns["data"], config |-> ns["config"]])
    /\ io' = io \cup {Access(<<"_logs">>, "w", "framework")}
    /\ UNCHANGED <<program, fs, runner, script, err>>

\* loader = m.data.build_loader("train.csv")
TBuildLoaderTrain ==
    /\ Step("t_build_loader_train", TAfter("t_build_loader_train"))
    /\ "m" \in DOMAIN ns
    /\ ns' = Bind("loader", [file |-> TrainCsv])
    /\ io' = io \cup {Access(TrainCsv, "r", "framework")}
    /\ UNCHANGED <<program, fs, runner, script, err>>

\* m.evaluate(loader)
TEvaluate ==
    /\ Step("t_evaluate", TAfter("t_evaluate"))
    /\ {"m", "loader"} \subseteq DOMAIN ns
    /\ UNCHANGED <<program, ns, fs, io, runner, script, err>>

\* loader = m.data.build_loader("test.csv")
TBuildLoaderTest ==
    /\ Step("t_build_loader_test", TAfter("t_build_loader_test"))
    /\ "m" \in DOMAIN ns
    /\ TestCsv \in DOMAIN fs
    /\ ns' = Bind("loader", [file |-> TestCsv])
    /\ io' = io \cup {Access(TestCsv, "r", "framework")}
    /\ UNCHANGED <<program, fs, runner, script, err>>

\* predictions = m.predict(loader)[cflearn.PREDICTIONS_KEY]
TPredict ==
    /\ Step("t_predict", TAfter("t_predict"))
    /\ {"m", "loader"} \subseteq DOMAIN ns
    /\ ns' = Bind("predictions", "raw")
    /\ UNCHANGED <<program, fs, io, runner, script, err>>

\* probabilities = m.predict(loader, return_probabilities=True)[...]
TPredictProba ==
    /\ Step("t_predict_proba", TAfter("t_predict_proba"))
    /\ {"m", "loader"} \subseteq DOMAIN ns
    /\ ns' = Bind("probabilities", "probabilities")
    /\ UNCHANGED <<program, fs, io, runner, script, err>>

\* classes = m.predict(loader, return_classes=True)[cflearn.PREDICTIONS_KEY]
TPredictClasses ==
    /\ Step("t_predict_classes", TAfter("t_predict_classes"))
    /\ {"m", "loader"} \subseteq DOMAIN ns
    /\ \E a \in ClassArrays : ns' = Bind("classes", a)
    /\ UNCHANGED <<program, fs, io, runner, script, err>>

\* print(probabilities[:3]); print(classes[:3])
TPrint ==
    /\ Step("t_print", TAfter("t_print"))
    /\ {"probabilities", "classes"} \subseteq DOMAIN ns
    /\ UNCHANGED <<program, ns, fs, io, runner, script, err>>

\* with open("test.csv", "r") as f:
TOpenTest ==
    /\ Step("t_open_test", TAfter("t_open_test"))
    /\ TestCsv \in DOMAIN fs
    /\ ns' = Bind("f", Open(TestCsv, "r"))
    /\ io' = io \cup {Access(TestCsv, "r", "authored")}
    /\ UNCHANGED <<program, fs, runner, script, err>>

\* the file object after reading one line
Advance(f) == [f EXCEPT !.pos = @ + Len(LineAt(fs[f.path], @))]

\* f.readline()
TReadline ==
    /\ Step("t_readline", TAfter("t_readline"))
    /\ ns' = ("_listcomp" :> <<>>) @@ Bind("f", Advance(ns["f"]))
    /\ UNCHANGED <<program, fs, io, runner, script, err>>

\* where `for line in f` goes: into the element expression while the file
\* has text left, out of the comprehension at its end
ForLineNext(f) ==
    IF f.pos < Len(fs[f.path]) THEN "t_append_id" ELSE TAfter("t_for_line")

\* id_list = [... for line in f]: the next line, or the finished list
TForLine ==
    LET f == ns["f"]
    IN  /\ Step("t_for_line", ForLineNext(f))
        /\ IF ForLineNext(f) = "t_append_id"
           THEN ns' = ("line" :> LineAt(fs[f.path], f.pos))
                      @@ Bind("f", Advance(f))
           ELSE ns' = Bind("id_list", ns["_listcomp"])
        /\ UNCHANGED <<program, fs, io, runner, script, err>>

\* line.strip().split(",")[0], appended to the list being built
TAppendId ==
    /\ Step("t_append_id", "t_for_line")
    /\ ns' = Bind("_listcomp", Append(ns["_listcomp"], TestId(ns["line"])))
    /\ UNCHANGED <<program, fs, io, runner, script, err>>

\* the end of the first with block closes test.csv
TCloseTest ==
    /\ Step("t_close_test", TAfter("t_close_test"))
    /\ ns' = Bind("f", [ns["f"] EXCEPT !.closed = TRUE])
    /\ UNCHANGED <<program, fs, io, runner, script, err>>

\* the name the submission cell opens for writing
SubmissionName == SubmissionCsv

\* with open("submission.csv", "w") as f: the file is created or truncated
TOpenSubmission ==
    /\ Step("t_open_submission", TAfter("t_open_submission"))
    /\ ns' = ("_zip" :> 0) @@ Bind("f", Open(SubmissionName, "w"))
    /\ fs' = (SubmissionName :> <<>>) @@ fs
    /\ io' = io \cup {Access(SubmissionName, "w", "authored")}
    /\ UNCHANGED <<program, runner, script, err>>

\* f.write(text) on the file object f
Write(f, text) == [fs EXCEPT ![f.path] = @ \o text]

\* the header written without its line break
FirstWriteUnterminated == Header

\* what the first write of the submission cell writes
FirstWrite == HeaderLine

\* f.write("PassengerId,Survived\n")
TWriteHeader ==
    /\ Step("t_write_header", TAfter("t_write_header"))
    /\ fs' = Write(ns["f"], FirstWrite)
    /\ UNCHANGED <<program, ns, io, runner, script, err>>

\* where `for test_id, c in zip(id_list, classes.ravel())` goes: zip stops at
\* the end of the shorter of the two
ForZipNext(i, ids, cls) ==
    IF i < Min(Len(ids), Len(cls)) THEN "t_write_row"
    ELSE TAfter("t_for_zip")

TForZip ==
    LET i == ns["_zip"]
        ids == ns["id_list"]
        cls == Ravel(ns["classes"])
    IN  /\ Step("t_for_zip", ForZipNext(i, ids, cls))
        /\ IF ForZipNext(i, ids, cls) = "t_write_row"
           THEN ns' = ("test_id" :> ids[i + 1]) @@ ("c" :> cls[i + 1])
                      @@ Bind("_zip", i + 1)
           ELSE ns' = ns
        /\ UNCHANGED <<program, fs, io, runner, script, err>>

\* a zip loop that breaks at an empty id
WriteRowNextBreaksAtBlank(test_id) ==
    IF test_id = <<>> THEN "t_close_submission" ELSE "t_for_zip"

\* where the body of the zip loop goes
WriteRowNext(test_id) == "t_for_zip"

\* f.write(f"{test_id},{c.item()}\n")
TWriteRow ==
    /\ Step("t_write_row", WriteRowNext(ns["test_id"]))
    /\ fs' = Write(ns["f"], SubmissionRow(ns["test_id"], ns["c"]))
    /\ UNCHANGED <<program, ns, io, runner, script, err>>

\* the end of the second with block closes submission.csv
TCloseSubmission ==
    /\ Step("t_close_submission", TAfter("t_close_submission"))
    /\ ns' = Bind("f", [ns["f"] EXCEPT !.closed = TRUE])
    /\ UNCHANGED <<program, fs, io, runner, script, err>>

TitanicNext ==
    \/ TSeed \/ TProcessorConfig \/ TDataFit \/ TConfig \/ TFitMl
    \/ TBuildLoaderTrain \/ TEvaluate \/ TBuildLoaderTest \/ TPredict
    \/ TPredictProba \/ TPredictClasses \/ TPrint \/ TOpenTest \/ TReadline
    \/ TForLine \/ TAppendId \/ TCloseTest \/ TOpenSubmission \/ TWriteHeader
    \/ TForZip \/ TWriteRow \/ TCloseSubmission

\* the files of the working directory before the Titanic notebook runs
TitanicFiles ==
    {(TestCsv :> text) @@ (TrainCsv :> <<>>) : text \in SeqsUpTo(Char, MaxFileLen)}

(* --------------------------- the Iris notebook ------------------------ *)

IrisPoints ==
    {"i_seed", "i_processor_config", "i_data_fit", "i_config", "i_fit_ml",
     "i_inspect_train", "i_inspect_stacked", "i_build_loader", "i_predict",
     "i_evaluate", "i_repeat", "i_load_pipelines", "i_evaluate_repeat",
     "i_models", "i_repeat_models", "i_load_pipelines_models",
     "i_evaluate_models", "i_repeat_jobs", "i_experiment", "i_dump_data",
     "i_add_fcnn", "i_add_linear", "i_run_command", "i_common_kwargs",
     "i_add_decision_tree", "i_add_random_forest", "i_run_tasks",
     "i_load_pipelines_experiment", "i_for_workspace", "i_model",
     "i_if_sklearn", "i_model_file", "i_open_model", "i_predictor",
     "i_set_pipeline", "i_close_model", "i_evaluate_experiment", "i_done"}

IrisData == <<"iris.data">>

\* the samples the Iris run reports for iris.data
\* the rows of iris.data, and the samples the Iris run reports for it
IrisRows == 150
IrisTrainSamples == 125
IrisValidSamples == 25

\* a statement that binds nothing the model follows
ISimple(p, q) ==
    /\ Step(p, q)
    /\ UNCHANGED <<program, ns, fs, io, runner, script, err>>

\* a statement that binds one name
IAssign(p, q, k, v) ==
    /\ Step(p, q)
    /\ ns' = Bind(k, v)
    /\ UNCHANGED <<program, fs, io, runner, script, err>>

\* seed_everything(123)
ISeed == ISimple("i_seed", "i_processor_config")

\* the processor config asking for 30 validation samples
IrisProcessorConfigThirty == [has_header |-> FALSE, num_split |-> 30]

\* the keyword arguments of MLBundledProcessorConfig(...)
IrisProcessorConfig == [has_header |-> FALSE, num_split |-> 25]

IProcessorConfig ==
    IAssign("i_processor_config", "i_data_fit", "processor_config",
            IrisProcessorConfig)

\* data = cflearn.MLData.init(processor_config=processor_config).fit("iris.data")
IDataFit ==
    /\ Step("i_data_fit", "i_config")
    /\ IrisData \in DOMAIN fs
    /\ ns' = Bind("data", MLDataFit(ns["processor_config"], IrisRows,
                                    IrisValidSamples))
    /\ io' = io \cup {Access(IrisData, "r", "framework")}
    /\ UNCHANGED <<program, fs, runner, script, err>>

\* the keyword arguments of MLConfig(...)
IrisConfig ==
    [model_name |-> "fcnn", loss_name |-> "focal",
     metric_names |-> <<"acc", "auc">>]

IConfig ==
    /\ "data" \in DOMAIN ns
    /\ IAssign("i_config", "i_fit_ml", "config", IrisConfig)

\* m = cflearn.api.fit_ml(data, config=config)
IFitMl ==
    /\ Step("i_fit_ml", "i_inspect_train")
    /\ {"data", "config"} \subseteq DOMAIN ns
    /\ ns' = Bind("m", [data |-> ns["data"], config |-> ns["config"]])
    /\ io' = io \cup {Access(<<"_logs">>, "w", "framework")}
    /\ UNCHANGED <<program, fs, runner, script, err>>

\* data = m.data; x_train = data.train_dataset.x; the two prints
IInspectTrain ==
    IAssign("i_inspect_train", "i_inspect_stacked", "data", ns["m"].data)

\* the same for the stacked training and validation features
IInspectStacked ==
    IAssign("i_inspect_stacked", "i_build_loader", "data", ns["m"].data)

\* loader = data.build_loader("iris.data")
IBuildLoader ==
    /\ Step("i_build_loader", "i_predict")
    /\ IrisData \in DOMAIN fs
    /\ ns' = Bind("loader", [file |-> IrisData])
    /\ io' = io \cup {Access(IrisData, "r", "framework")}
    /\ UNCHANGED <<program, fs, runner, script, err>>

\* predictions = m.predict(loader)
IPredict == IAssign("i_predict", "i_evaluate", "predictions", "raw")

\* cflearn.api.evaluate(loader, dict(m=m))
IEvaluate == ISimple("i_evaluate", "i_repeat")

\* a call of cflearn.api.repeat_ml(data, m.config, **kw) starts its tasks
CallRepeatMl(p, kw) ==
    /\ pc = p
    /\ {"data", "m"} \subseteq DOMAIN ns
    /\ StartTasks(RepeatMlTasks(ns["m"].config, kw), NumJobs(kw))
    /\ UNCHANGED <<kernel, calls, succs, fs, io, script, err>>

\* the call at p returns its results once every task is done
ReturnResults(p, q) ==
    /\ Step(p, q)
    /\ StopTasks
    /\ ns' = Bind("results", Results(tasks))
    /\ UNCHANGED <<program, fs, io, script, err>>

\* the second call given the num_jobs of the third
RepeatModelsKwargsWithJobs ==
    [models |-> ns["models"], num_repeat |-> 3, num_jobs |-> 2]

\* the third call asking for three processes
RepeatJobsKwargsThreeJobs ==
    [models |-> ns["models"], num_repeat |-> 10, num_jobs |-> 3]

\* the keyword arguments of the three repeat_ml calls
RepeatKwargs == [num_repeat |-> 3]
RepeatModelsKwargs == [models |-> ns["models"], num_repeat |-> 3]
RepeatJobsKwargs ==
    [models |-> ns["models"], num_repeat |-> 10, num_jobs |-> 2]

\* results = cflearn.api.repeat_ml(data, m.config, num_repeat=3)
IRepeat ==
    \/ CallRepeatMl("i_repeat", RepeatKwargs)
    \/ ReturnResults("i_repeat", "i_load_pipelines")

\* what cflearn.api.load_pipelines(results) loads: the pipelines the
\* carefree-learn tasks saved, by model
LoadPipelines(results) ==
    LET keys == results.workspace_keys
        saved == {k \in DOMAIN keys :
                    results.workspaces[k] = <<>>
                    \/ Append(results.workspaces[k], "pipeline") \in DOMAIN fs}
    IN  [model \in {keys[k][1] : k \in saved} |-> [pipeline |-> model]]

\* pipelines = cflearn.api.load_pipelines(results)
ILoadPipelines ==
    IAssign("i_load_pipelines", "i_evaluate_repeat", "pipelines",
            LoadPipelines(ns["results"]))

\* cflearn.api.evaluate(loader, pipelines)
IEvaluateRepeat == ISimple("i_evaluate_repeat", "i_models")

\* a list of models that lost its second name
ModelsListLinearOnly == <<"linear">>

\* models = ["linear", "fcnn"]
ModelsList == <<"linear", "fcnn">>

IModels == IAssign("i_models", "i_repeat_models", "models", ModelsList)

\* results = cflearn.api.repeat_ml(data, m.config, models=models, num_repeat=3)
IRepeatModels ==
    \/ CallRepeatMl("i_repeat_models", RepeatModelsKwargs)
    \/ ReturnResults("i_repeat_models", "i_load_pipelines_models")

ILoadPipelinesModels ==
    IAssign("i_load_pipelines_models", "i_evaluate_models", "pipelines",
            LoadPipelines(ns["results"]))

IEvaluateModels == ISimple("i_evaluate_models", "i_repeat_jobs")

\* results = cflearn.api.repeat_ml(data, m.config, models=models,
\*                                 num_repeat=10, num_jobs=2)
IRepeatJobs ==
    \/ CallRepeatMl("i_repeat_jobs", RepeatJobsKwargs)
    \/ ReturnResults("i_repeat_jobs", "i_experiment")

\* experiment = cflearn.dist.ml.Experiment()
IExperiment ==
    IAssign("i_experiment", "i_dump_data", "experiment", [tasks |-> <<>>])

ExperimentFolder == <<"_experiment">>
DataFolder == Join(ExperimentFolder, "__data__")
DataFiles == {Join(DataFolder, "npd"), Join(DataFolder, "id.txt"),
              Join(DataFolder, "info.json")}

\* data_folder = experiment.dump_data(data)
IDumpData ==
    /\ Step("i_dump_data", "i_add_fcnn")
    /\ "data" \in DOMAIN ns
    /\ ns' = Bind("data_folder", DataFolder)
    /\ fs' = [path \in DataFiles |-> <<>>] @@ fs
    /\ io' = io \cup {Access(path, "w", "framework") : path \in DataFiles}
    /\ UNCHANGED <<program, runner, script, err>>

\* the task experiment.add_task(model=..., **kw) adds: its workspace is
\* _experiment/<model>/0
ExperimentTask(model, kw) ==
    [model |-> model, workspace |-> Join(Join(ExperimentFolder, model), "0"),
     run_command |-> IF "run_command" \in DOMAIN kw THEN kw.run_command ELSE "",
     state |-> "pending", worker |-> 0, runs |-> 0]

\* experiment.add_task(model=model, **kw)
IAddTask(p, q, model, kw) ==
    /\ "experiment" \in DOMAIN ns
    /\ IAssign(p, q, "experiment",
               [tasks |-> Append(ns["experiment"].tasks, ExperimentTask(model, kw))])

\* experiment.add_task(model="fcnn", config=config, data_folder=data_folder)
IAddFcnn ==
    IAddTask("i_add_fcnn", "i_add_linear", "fcnn",
             [config |-> ns["config"], data_folder |-> ns["data_folder"]])

\* experiment.add_task(model="linear", config=config, data_folder=data_folder)
IAddLinear ==
    IAddTask("i_add_linear", "i_run_command", "linear",
             [config |-> ns["config"], data_folder |-> ns["data_folder"]])

\* run_command = f"python run_sklearn.py"
IRunCommand ==
    IAssign("i_run_command", "i_common_kwargs", "run_command",
            "python run_sklearn.py")

\* the common keyword arguments without the run command
ICommonKwargsNoCommand ==
    IAssign("i_common_kwargs", "i_add_decision_tree", "common_kwargs",
            [data_folder |-> ns["data_folder"]])

\* common_kwargs = {"run_command": run_command, "data_folder": data_folder}
ICommonKwargs ==
    IAssign("i_common_kwargs", "i_add_decision_tree", "common_kwargs",
            [run_command |-> ns["run_command"], data_folder |-> ns["data_folder"]])

\* experiment.add_task(model="decision_tree", **common_kwargs)
IAddDecisionTree ==
    IAddTask("i_add_decision_tree", "i_add_random_forest", "decision_tree",
             ns["common_kwargs"])

\* experiment.add_task(model="random_forest", **common_kwargs)
IAddRandomForest ==
    IAddTask("i_add_random_forest", "i_run_tasks", "random_forest",
             ns["common_kwargs"])

\* results = experiment.run_tasks()
IRunTasks ==
    \/ /\ pc = "i_run_tasks"
       /\ StartTasks(ns["experiment"].tasks, NumJobs(<<>>))
       /\ UNCHANGED <<kernel, calls, succs, fs, io, script, err>>
    \/ ReturnResults("i_run_tasks", "i_load_pipelines_experiment")

\* pipelines = cflearn.api.load_pipelines(results)
ILoadPipelinesExperiment ==
    /\ Step("i_load_pipelines_experiment", "i_for_workspace")
    /\ ns' = ("_zip" :> 0) @@ Bind("pipelines", LoadPipelines(ns["results"]))
    /\ io' = io \cup {Access(Join(ns["results"].workspaces[k], "pipeline"),
                             "r", "framework") :
                        k \in {j \in DOMAIN ns["results"].workspaces :
                                 ns["results"].workspace_keys[j][1]
                                    \in DOMAIN LoadPipelines(ns["results"])}}
    /\ UNCHANGED <<program, fs, runner, script, err>>

\* where `for workspace, workspace_key in zip(results.workspaces,
\* results.workspace_keys)` goes
ForWorkspaceNext(i, results) ==
    IF i < Min(Len(results.workspaces), Len(results.workspace_keys))
    THEN "i_model" ELSE "i_evaluate_experiment"

IForWorkspace ==
    LET i == ns["_zip"]
        results == ns["results"]
    IN  /\ Step("i_for_workspace", ForWorkspaceNext(i, results))
        /\ IF ForWorkspaceNext(i, results) = "i_model"
           THEN ns' = ("workspace" :> results.workspaces[i + 1])
                      @@ ("workspace_key" :> results.workspace_keys[i + 1])
                      @@ Bind("_zip", i + 1)
           ELSE ns' = ns
        /\ UNCHANGED <<program, fs, io, runner, script, err>>

\* model = workspace_key[0]
IModel == IAssign("i_model", "i_if_sklearn", "model", ns["workspace_key"][1])

\* where `if model in ["decision_tree", "random_forest"]` goes
IfSklearnNext(model) ==
    IF model \in {"decision_tree", "random_forest"} THEN "i_model_file"
    ELSE "i_for_workspace"

IIfSklearn == ISimple("i_if_sklearn", IfSklearnNext(ns["model"]))

\* model_file = os.path.join(workspace, "sk_model.pkl")
IModelFile ==
    IAssign("i_model_file", "i_open_model", "model_file",
            Join(ns["workspace"], "sk_model.pkl"))

\* with open(model_file, "rb") as f:
IOpenModel ==
    /\ Step("i_open_model", "i_predictor")
    /\ ns["model_file"] \in DOMAIN fs
    /\ ns' = Bind("f", Open(ns["model_file"], "rb"))
    /\ io' = io \cup {Access(ns["model_file"], "rb", "authored")}
    /\ UNCHANGED <<program, fs, runner, script, err>>

\* predictor = cflearn.SKLearnClassifier(pickle.load(f))
IPredictor ==
    IAssign("i_predictor", "i_set_pipeline", "predictor",
            [sk_model |-> fs[ns["f"].path]])

\* pipelines[model] = cflearn.GeneralEvaluationPipeline(config, predictor)
ISetPipeline ==
    IAssign("i_set_pipeline", "i_close_model", "pipelines",
            (ns["model"] :> [predictor |-> ns["predictor"]]) @@ ns["pipelines"])

\* the end of the with block closes the model file
ICloseModel ==
    IAssign("i_close_model", "i_for_workspace", "f",
            [ns["f"] EXCEPT !.closed = TRUE])

\* cflearn.api.evaluate(loader, pipelines)
IEvaluateExperiment == ISimple("i_evaluate_experiment", "i_done")

IrisNext ==
    \/ ISeed \/ IProcessorConfig \/ IDataFit \/ IConfig \/ IFitMl
    \/ IInspectTrain \/ IInspectStacked \/ IBuildLoader \/ IPredict
    \/ IEvaluate \/ IRepeat \/ ILoadPipelines \/ IEvaluateRepeat \/ IModels
    \/ IRepeatModels \/ ILoadPipelinesModels \/ IEvaluateModels
    \/ IRepeatJobs \/ IExperiment \/ IDumpData \/ IAddFcnn \/ IAddLinear
    \/ IRunCommand \/ ICommonKwargs \/ IAddDecisionTree \/ IAddRandomForest
    \/ IRunTasks \/ ILoadPipelinesExperiment \/ IForWorkspace \/ IModel
    \/ IIfSklearn \/ IModelFile \/ IOpenModel \/ IPredictor \/ ISetPipeline
    \/ ICloseModel \/ IEvaluateExperiment

(* ------------- MLData.fit and the inspection cells, on a small file --- *)

\* the values of a feature column, and the data files of up to MaxRows rows
\* whose column is not constant
FeatureValues == {0, 1, 2}
DataRows ==
    {rows \in SeqsUpTo(FeatureValues, MaxRows) :
        \E j, k \in DOMAIN rows : rows[j] # rows[k]}

RECURSIVE Sum(_)
Sum(x) == IF x = <<>> THEN 0 ELSE Head(x) + Sum(Tail(x))

SumSq(x) == Sum([k \in DOMAIN x |-> x[k] * x[k]])

\* the column normalized with the statistics of the n rows given: the value
\* of row k is (rows[k] - mean) / std, kept as the integer n * rows[k] - sum
\* with the factor sqrt(n / q) it is to be multiplied by, q the sum of the
\* squares of these integers
Normalize(rows) ==
    LET n == Len(rows)
        x == [k \in DOMAIN rows |-> n * rows[k] - Sum(rows)]
    IN  [x |-> x, n |-> n, q |-> SumSq(x)]

\* x.mean(0) is 0, x.std(0) is 1, for normalized values x with factor norm
MeanIsZero(x) == Sum(x) = 0
StdIsOne(x, norm) ==
    norm.n * (Len(x) * SumSq(x) - Sum(x) * Sum(x)) = Len(x) * Len(x) * norm.q

\* the rows of x at the indices of S, in their order
RECURSIVE Pick(_, _, _)
Pick(x, S, k) ==
    IF k > Len(x) THEN <<>>
    ELSE (IF k \in S THEN <<x[k]>> ELSE <<>>) \o Pick(x, S, k + 1)

\* the ways to pick num_split of n rows for validation
Splits(n, num_split) == {S \in SUBSET (1..n) : Cardinality(S) = num_split}

\* the stacked features without the validation rows
VStackTrainOnly(a, b) == a

\* np.vstack([a, b])
VStack(a, b) == a \o b

FitPoints ==
    {"d_processor_config", "d_normalize", "d_split", "d_inspect_train",
     "d_inspect_stacked", "d_done"}

\* processor_config = cflearn.MLBundledProcessorConfig(has_header=False,
\*                                                     num_split=...)
DProcessorConfig ==
    /\ Step("d_processor_config", "d_normalize")
    /\ \E k \in 1..(MaxRows - 1) :
          ns' = Bind("processor_config", [has_header |-> FALSE, num_split |-> k])
    /\ UNCHANGED <<program, fs, io, runner, script, err>>

\* MLData.fit("iris.data"), first part: the rows are normalized
DNormalize ==
    /\ Step("d_normalize", "d_split")
    /\ IrisData \in DOMAIN fs
    /\ ns["processor_config"].num_split < Len(fs[IrisData])
    /\ ns' = Bind("_normalized", Normalize(fs[IrisData]))
    /\ io' = io \cup {Access(IrisData, "r", "framework")}
    /\ UNCHANGED <<program, fs, runner, script, err>>

\* MLData.fit("iris.data"), second part: num_split of the normalized rows are
\* picked for validation, the others are the training set
DSplit ==
    LET all == ns["_normalized"]
    IN  /\ Step("d_split", "d_inspect_train")
        /\ \E S \in Splits(all.n, ns["processor_config"].num_split) :
              ns' = Bind("data",
                         [x_train |-> Pick(all.x, (1..all.n) \ S, 1),
                          x_valid |-> Pick(all.x, S, 1),
                          norm |-> [n |-> all.n, q |-> all.q]])
        /\ UNCHANGED <<program, fs, io, runner, script, err>>

\* x_train = data.train_dataset.x; the mean and std printed
DInspectTrain ==
    LET x_train == ns["data"].x_train
    IN  IAssign("d_inspect_train", "d_inspect_stacked", "printed_train",
                [mean_is_zero |-> MeanIsZero(x_train),
                 std_is_one |-> StdIsOne(x_train, ns["data"].norm)])

\* stacked = np.vstack([x_train, x_valid]); the mean and std printed
DInspectStacked ==
    LET stacked == VStack(ns["data"].x_train, ns["data"].x_valid)
    IN  /\ Step("d_inspect_stacked", "d_done")
        /\ ns' = ("stacked" :> stacked)
                 @@ Bind("printed_stacked",
                         [mean_is_zero |-> MeanIsZero(stacked),
                          std_is_one |-> StdIsOne(stacked, ns["data"].norm)])
        /\ UNCHANGED <<program, fs, io, runner, script, err>>

FitNext ==
    \/ DProcessorConfig \/ DNormalize \/ DSplit \/ DInspectTrain
    \/ DInspectStacked

FitFiles == {(IrisData :> rows) : rows \in DataRows}

(* ------------------------------ the Dockerfile ------------------------ *)

BuildPoints ==
    {"b_from", "b_workdir", "b_copy", "b_apt_update", "b_apt_htop",
     "b_apt_git", "b_apt_ssh", "b_apt_tmux", "b_pip_upgrade", "b_pip_repo",
     "b_pip_gpustat", "b_done", "b_failed"}

\* the Dockerfile with pip install . placed before COPY . .
InstructionsInstallBeforeCopy ==
    <<"b_from", "b_workdir", "b_pip_repo", "b_apt_update", "b_apt_htop",
      "b_apt_git", "b_apt_ssh", "b_apt_tmux", "b_pip_upgrade", "b_copy",
      "b_pip_gpustat", "b_done">>

\* the instructions of the Dockerfile, from its first line to its last
Instructions ==
    <<"b_from", "b_workdir", "b_copy", "b_apt_update", "b_apt_htop",
      "b_apt_git", "b_apt_ssh", "b_apt_tmux", "b_pip_upgrade", "b_pip_repo",
      "b_pip_gpustat", "b_done">>

\* the instruction the build runs after instruction p
BAfter(p) == Instructions[IndexFrom(Instructions, p, 1) + 1]

\* the image changed by an instruction
BInstruction(p, image) ==
    /\ Step(p, BAfter(p))
    /\ ns' = Bind("image", image)
    /\ UNCHANGED <<program, fs, io, runner, script, err>>

\* a RUN instruction whose command fails ends the build
BFails(p) ==
    /\ Step(p, "b_failed")
    /\ UNCHANGED <<program, ns, fs, io, runner, script, err>>

\* FROM nvcr.io/nvidia/pytorch:21.07-py3
BFrom ==
    BInstruction("b_from",
                 [base |-> "nvcr.io/nvidia/pytorch:21.07-py3", workdir |-> <<>>, files |-> {},
                  apt_lists |-> FALSE, apt |-> {}, pip_upgraded |-> FALSE,
                  pip |-> {}])

\* WORKDIR /usr/home
BWorkdir ==
    BInstruction("b_workdir", [ns["image"] EXCEPT !.workdir = <<"usr", "home">>])

\* COPY . .
BCopy ==
    BInstruction("b_copy",
                 [ns["image"] EXCEPT
                    !.files = @ \cup {[dir |-> ns["image"].workdir,
                                       content |-> "repository"]}])

\* RUN apt-get update
BAptUpdate ==
    \/ BInstruction("b_apt_update", [ns["image"] EXCEPT !.apt_lists = TRUE])
    \/ BFails("b_apt_update")

\* RUN apt-get install <package>: the package is found in the package lists
BAptInstall(p, package) ==
    \/ /\ pc = p
       /\ ns["image"].apt_lists
       /\ BInstruction(p, [ns["image"] EXCEPT !.apt = @ \cup {package}])
    \/ BFails(p)

\* RUN apt-get install htop
BAptHtop == BAptInstall("b_apt_htop", "htop")

\* RUN apt-get -y install git
BAptGit == BAptInstall("b_apt_git", "git")

\* RUN apt-get -y install ssh
BAptSsh == BAptInstall("b_apt_ssh", "ssh")

\* RUN apt-get -y install tmux
BAptTmux == BAptInstall("b_apt_tmux", "tmux")

\* RUN pip install -U pip
BPipUpgrade ==
    \/ BInstruction("b_pip_upgrade", [ns["image"] EXCEPT !.pip_upgraded = TRUE])
    \/ BFails("b_pip_upgrade")

\* RUN pip install . : the project in the working directory is installed,
\* by the pip of the image as it is then
BPipRepo ==
    \/ /\ pc = "b_pip_repo"
       /\ \E file \in ns["image"].files :
          /\ file.dir = ns["image"].workdir
          /\ BInstruction("b_pip_repo",
                          [ns["image"] EXCEPT
                             !.pip = @ \cup {[package |-> file.content,
                                          by_upgraded_pip |->
                                             ns["image"].pip_upgraded]}])
    \/ BFails("b_pip_repo")

\* RUN pip install gpustat
BPipGpustat ==
    \/ BInstruction("b_pip_gpustat",
                    [ns["image"] EXCEPT
                       !.pip = @ \cup {[package |-> "gpustat",
                                       by_upgraded_pip |->
                                          ns["image"].pip_upgraded]}])
    \/ BFails("b_pip_gpustat")

BuildNext ==
    \/ BFrom \/ BWorkdir \/ BCopy \/ BAptUpdate \/ BAptHtop \/ BAptGit
    \/ BAptSsh \/ BAptTmux \/ BPipUpgrade \/ BPipRepo \/ BPipGpustat

(* --------------------------- the specification ------------------------ *)

Points ==
    TitanicPoints \cup IrisPoints \cup ScriptPoints \cup FitPoints
       \cup BuildPoints

Programs == {"titanic", "iris", "run_sklearn", "fit", "build"}

Entry(prog) == CASE prog = "titanic" -> "t_seed"
                 [] prog = "iris" -> "i_seed"
                 [] prog = "run_sklearn" -> "r_python"
                 [] prog = "fit" -> "d_processor_config"
                 [] prog = "build" -> "b_from"

Files(prog) == CASE prog = "titanic" -> TitanicFiles
                 [] prog = "iris" -> {(IrisData :> <<>>)}
                 [] prog = "run_sklearn" -> {<<>>}
                 [] prog = "fit" -> FitFiles
                 [] prog = "build" -> {<<>>}

Init ==
    /\ program \in Programs
    /\ pc = Entry(program)
    /\ ns = <<>>
    /\ calls = <<>>
    /\ succs = [p \in Points |-> {}]
    /\ fs \in Files(program)
    /\ io = {}
    /\ tasks = <<>>
    /\ pool = [active |-> FALSE, num_jobs |-> 0]
    /\ spc = "s_off"
    /\ sns = <<>>
    /\ err = {}

Next ==
    \/ TitanicNext \/ IrisNext \/ ScriptNext \/ RunNext \/ RunnerNext
    \/ FitNext \/ BuildNext

Spec == Init /\ [][Next]_vars

\* the interpreter, the runner's processes and the script keep running while
\* any of them has a step to take
FairSpec == Spec /\ WF_vars(Next)

(* ------------------------------ properties ---------------------------- *)

Executed(p) == \E k \in DOMAIN calls : calls[k] = p

Count(p) == Cardinality({k \in DOMAIN calls : calls[k] = p})

\* the lines of a text, each with its line break
RECURSIVE Lines(_)
Lines(text) ==
    IF text = <<>> THEN <<>>
    ELSE <<LineAt(text, 0)>>
         \o Lines(SubSeq(text, Len(LineAt(text, 0)) + 1, Len(text)))

AuthoredWrites == {a.path : a \in {b \in io : b.by = "authored" /\ b.mode = "w"}}

\* C1: once the submission cell has written its header, and so when it has
\* run to its end, the one file it has opened for writing is submission.csv,
\* the first line of that file is PassengerId,Survived, the header was
\* written once and before every data row, and no other line of the file
\* is the header, whatever test.csv and the class array hold.
C1_HeaderFirstAndOnce ==
    (program = "titanic" /\ Executed("t_write_header")) =>
        /\ AuthoredWrites = {<<"submission.csv">>}
        /\ <<"submission.csv">> \in DOMAIN fs
        /\ LET text == fs[<<"submission.csv">>]
           IN  /\ Lines(text)[1] = HeaderLine
               /\ \A k \in 2..Len(Lines(text)) : Lines(text)[k] # HeaderLine
        /\ Count("t_write_header") = 1
        /\ \A k \in DOMAIN calls :
              calls[k] = "t_write_row" =>
                  \E j \in 1..(k - 1) : calls[j] = "t_write_header"

\* the submission cell has run to its end and has written a data row
C1_Witness ==
    /\ pc = "t_done"
    /\ Len(Lines(fs[<<"submission.csv">>])) > 1

\* the submission cell has run to its end on an empty test.csv
C1_WitnessEmpty ==
    /\ pc = "t_done"
    /\ fs[TestCsv] = <<>>
    /\ fs[<<"submission.csv">>] = HeaderLine

\* C2: once the Titanic submission code has run, a file named
\* submissions.csv exists.
C2_SubmissionsCsvGenerated ==
    pc = "t_done" => <<"submissions.csv">> \in DOMAIN fs

\* C3: the processor configuration of the Titanic notebook gives
\* num_split=200, and the fitted data has 50 validation samples.
C3_NumSplit200Picks50 ==
    (program = "titanic" /\ "data" \in DOMAIN ns) =>
        /\ "num_split" \in DOMAIN ns["processor_config"]
        /\ ns["processor_config"].num_split = 200
        /\ ns["data"].valid_samples = 50

\* the steps of the Titanic workflow in the order of the notebook
C4_Order ==
    <<"t_seed", "t_processor_config", "t_data_fit", "t_config", "t_fit_ml",
      "t_build_loader_train", "t_evaluate", "t_build_loader_test",
      "t_predict", "t_predict_proba", "t_predict_classes", "t_print",
      "t_open_test", "t_readline", "t_close_test", "t_open_submission",
      "t_write_header", "t_close_submission">>

C4_LoopStatements == {"t_for_line", "t_append_id", "t_for_zip", "t_write_row"}

RECURSIVE Without(_, _)
Without(seq, S) ==
    IF seq = <<>> THEN <<>>
    ELSE IF Head(seq) \in S THEN Without(Tail(seq), S)
    ELSE <<Head(seq)>> \o Without(Tail(seq), S)

IsPrefix(a, b) == Len(a) <= Len(b) /\ a = SubSeq(b, 1, Len(a))

\* C4: the Titanic workflow runs its steps in the order of the notebook,
\* none skipped, repeated or reordered: the steps run so far are always the
\* first steps of the notebook; the config exists when fit_ml is called, the
\* model fit_ml returns exists at every predict call, and the class
\* predictions exist when submission.csv is opened.
C4_SequentialWorkflow ==
    program = "titanic" =>
        /\ IsPrefix(Without(calls, C4_LoopStatements), C4_Order)
        /\ pc = "t_fit_ml" => {"data", "config"} \subseteq DOMAIN ns
        /\ pc \in {"t_predict", "t_predict_proba", "t_predict_classes"} =>
              "m" \in DOMAIN ns /\ Executed("t_fit_ml")
        /\ pc = "t_open_submission" => "classes" \in DOMAIN ns
        /\ Executed("t_open_submission") => Executed("t_predict_classes")

\* the whole workflow has run, with rows read and written
C4_Witness ==
    /\ pc = "t_done"
    /\ Without(calls, C4_LoopStatements) = C4_Order
    /\ Executed("t_write_row")

C5_BranchPoints ==
    {"t_for_line", "t_for_zip", "i_for_workspace", "i_if_sklearn",
     "s_assert_data", "s_assert_x", "s_assert_y", "s_if_decision_tree",
     "s_elif_random_forest"}

\* the statements inside the three authored loops
C5_LoopStatements ==
    {"t_for_line", "t_append_id", "t_for_zip", "t_write_row",
     "i_for_workspace", "i_model", "i_if_sklearn", "i_model_file",
     "i_open_model", "i_predictor", "i_set_pipeline", "i_close_model"}

C6_NoAuthoredError ==
    \A e \in err : e.origin # "authored"

C6_SklearnModels == {"decision_tree", "random_forest"}

\* C6 amended: the notebooks raise nothing of their own; run_sklearn.py
\* raises AssertionError when its data is None or x or y is no numpy array,
\* and NotImplementedError when the model is neither decision_tree nor
\* random_forest; an exception ends the script, which runs to its end only
\* when every one of these checks passes.
C6_ErrorsOnlyFromScriptChecks ==
    /\ program \in {"titanic", "iris"} => err = {}
    /\ \A e \in err :
          /\ spc = "s_raised"
          /\ e.origin = "authored"
          /\ \/ /\ e.at = "s_assert_data" /\ e.kind = "AssertionError"
                /\ sns["_env"].data = "None"
             \/ /\ e.at = "s_assert_x" /\ e.kind = "AssertionError"
                /\ ~sns["_env"].x_ndarray
             \/ /\ e.at = "s_assert_y" /\ e.kind = "AssertionError"
                /\ ~sns["_env"].y_ndarray
             \/ /\ e.at = "s_raise" /\ e.kind = "NotImplementedError"
                /\ sns["_env"].model \notin C6_SklearnModels
    /\ spc = "s_raised" => Cardinality(err) = 1
    /\ spc \in {"s_sk_model", "s_fit", "s_open_pkl", "s_dump", "s_close_pkl",
                "s_exit"} =>
          /\ err = {}
          /\ sns["_env"].data # "None"
          /\ sns["_env"].x_ndarray /\ sns["_env"].y_ndarray
          /\ sns["_env"].model \in C6_SklearnModels

\* run_sklearn.py has raised NotImplementedError
C6_Witness ==
    /\ spc = "s_raised"
    /\ [at |-> "s_raise", kind |-> "NotImplementedError", origin |-> "authored"]
          \in err

DataFilesGiven == {<<"train.csv">>, <<"test.csv">>, <<"iris.data">>}

ScriptRunning == spc \notin {"s_off", "s_exit", "s_raised"}

RunnerCalls == {"i_repeat", "i_repeat_models", "i_repeat_jobs", "i_run_tasks"}

TasksOf(model) == {k \in DOMAIN tasks : tasks[k].model = model}

\* C9: repeat_ml runs num_repeat tasks for each model name, of the config's
\* model when no models are given: 3 fcnn tasks in the first call, 3 linear
\* and 3 fcnn tasks in the second, 10 and 10 in the third; when a call has
\* returned every one of its tasks is done, was run once, and has its entry
\* in the results.
C9_RepeatMlTaskCounts ==
    /\ ((pc = "i_repeat" /\ pool.active) \/ pc = "i_load_pipelines") =>
          /\ Len(tasks) = 3
          /\ Cardinality(TasksOf("fcnn")) = 3
    /\ ((pc = "i_repeat_models" /\ pool.active)
            \/ pc = "i_load_pipelines_models") =>
          /\ Len(tasks) = 6
          /\ Cardinality(TasksOf("linear")) = 3
          /\ Cardinality(TasksOf("fcnn")) = 3
    /\ ((pc = "i_repeat_jobs" /\ pool.active) \/ pc = "i_experiment") =>
          /\ Len(tasks) = 20
          /\ Cardinality(TasksOf("linear")) = 10
          /\ Cardinality(TasksOf("fcnn")) = 10
    /\ pc \in {"i_load_pipelines", "i_load_pipelines_models", "i_experiment"} =>
          /\ AllDone(tasks)
          /\ \A k \in DOMAIN tasks : tasks[k].runs = 1
          /\ Len(ns["results"].workspaces) = Len(tasks)

\* the third call has returned with its 20 tasks done
C9_Witness ==
    /\ pc = "i_experiment"
    /\ Len(tasks) = 20
    /\ AllDone(tasks)

InJobsCall == pc = "i_repeat_jobs" /\ pool.active

C10_TwoProcesses ==
    InJobsCall =>
        /\ pool.num_jobs = 2
        /\ Len(tasks) = 20
        /\ Cardinality(Running(tasks)) <= 2
        /\ \A j, k \in Running(tasks) :
              j # k => tasks[j].worker # tasks[k].worker
        /\ \A k \in DOMAIN tasks :
              /\ tasks[k].runs = (IF tasks[k].state = "pending" THEN 0 ELSE 1)
              /\ tasks[k].state = "running" <=> tasks[k].worker \in 1..2

\* C10: in the repeat_ml call with num_jobs=2 the runner has 2 processes, at
\* most 2 of the 20 tasks are running at any moment, on different processes,
\* no task is started twice, and once the call is under way all 20 tasks
\* come to be done and the call returns.
C10_TwoJobsRunAllTasks ==
    /\ []C10_TwoProcesses
    /\ InJobsCall ~> (pc = "i_experiment" /\ Len(tasks) = 20 /\ AllDone(tasks))

\* both processes are running a task of the 20
C10_Witness ==
    /\ InJobsCall
    /\ Cardinality(Running(tasks)) = 2
    /\ \E k \in DOMAIN tasks : tasks[k].state = "done"

\* the tasks the experiment cell adds, by the kind of model they train
CflearnTaskModels == {"fcnn", "linear"}
SklearnTaskModels == {"decision_tree", "random_forest"}

\* the files with a copy of the dumped data
DumpedDataFiles ==
    {path \in DOMAIN fs : path[Len(path)] \in {"npd", "id.txt", "info.json"}}

\* C11: after experiment.run_tasks() has returned, the tasks added are those
\* of fcnn, linear, decision_tree and random_forest, each with its own
\* workspace _experiment/<model>/0 that holds __meta__.json; the workspace
\* of a carefree-learn task holds pipeline, the workspace of a scikit-learn
\* task holds sk_model.pkl, and the dumped data is in _experiment/__data__
\* and nowhere else.
C11_ExperimentWorkspaces ==
    (program = "iris" /\ Executed("i_run_tasks")) =>
        LET added == ns["experiment"].tasks
        IN  /\ {added[k].model : k \in DOMAIN added}
                  = CflearnTaskModels \cup SklearnTaskModels
            /\ \A j, k \in DOMAIN added :
                  added[j].workspace = added[k].workspace => j = k
            /\ \A k \in DOMAIN added :
                  LET t == added[k]
                  IN  /\ t.workspace = <<"_experiment", t.model, "0">>
                      /\ Append(t.workspace, "__meta__.json") \in DOMAIN fs
                      /\ t.model \in CflearnTaskModels <=>
                            Append(t.workspace, "pipeline") \in DOMAIN fs
                      /\ t.model \in SklearnTaskModels <=>
                            Append(t.workspace, "sk_model.pkl") \in DOMAIN fs
            /\ DumpedDataFiles = DataFiles
            /\ \A path \in DataFiles :
                  SubSeq(path, 1, 2) = <<"_experiment", "__data__">>

\* run_tasks has returned with the four tasks done, the scikit-learn model
\* of the last one saved by run_sklearn.py
C11_Witness ==
    /\ pc = "i_load_pipelines_experiment"
    /\ Len(tasks) = 4
    /\ AllDone(tasks)
    /\ Access(<<"_experiment", "random_forest", "0", "sk_model.pkl">>, "wb",
              "authored") \in io

C12_WitnessSmallFile ==
    /\ program = "fit"
    /\ pc = "d_inspect_train"
    /\ Len(fs[IrisData]) = 3
    /\ Len(ns["data"].x_valid) = 2
    /\ Len(ns["data"].x_train) = 1

\* the place of the first run of statement p among the statements run
FirstRun(p) == CHOOSE k \in DOMAIN calls :
                  calls[k] = p /\ \A j \in 1..(k - 1) : calls[j] # p

\* a and b hold the same rows, in any order
SameRows(a, b) ==
    /\ Len(a) = Len(b)
    /\ \A k \in DOMAIN a :
          Cardinality({j \in DOMAIN a : a[j] = a[k]})
             = Cardinality({j \in DOMAIN b : b[j] = a[k]})

\* C13: MLData.fit normalizes before it splits: the statistics are those of
\* all the rows of the file, and the training rows stacked on the validation
\* rows are the normalized rows of the whole file, with mean 0 and std 1
\* (the training rows alone need not have them: C13_Witness).
C13_NormalizedBeforeSplit ==
    /\ (program = "fit" /\ Executed("d_split")) =>
          /\ Executed("d_normalize")
          /\ FirstRun("d_normalize") < FirstRun("d_split")
          /\ ns["data"].norm.n = Len(fs[IrisData])
          /\ ns["data"].norm.q = Normalize(fs[IrisData]).q
    /\ (program = "fit" /\ Executed("d_inspect_stacked")) =>
          /\ SameRows(ns["stacked"], Normalize(fs[IrisData]).x)
          /\ ns["printed_stacked"].mean_is_zero
          /\ ns["printed_stacked"].std_is_one

\* both inspection cells have run: the stacked rows are normalized, the
\* training rows alone are not
C13_Witness ==
    /\ program = "fit"
    /\ pc = "d_done"
    /\ ns["printed_stacked"].mean_is_zero
    /\ ns["printed_stacked"].std_is_one
    /\ ~ns["printed_train"].mean_is_zero
    /\ ~ns["printed_train"].std_is_one

\* the places where the lines of a text start, and the line that starts at s
\* with its line break
LineStarts(text) == {s \in 1..Len(text) : s = 1 \/ text[s - 1] = "\n"}
LineFrom(text, s) ==
    LET breaks == {k \in s..Len(text) : text[k] = "\n"}
    IN  SubSeq(text, s, IF breaks = {} THEN Len(text) ELSE FirstOf(breaks))

\* the i-th line of a text
NthLine(text, i) ==
    LineFrom(text, CHOOSE s \in LineStarts(text) :
                      Cardinality({r \in LineStarts(text) : r < s}) = i - 1)

\* a line without the whitespace around it
Stripped(line) ==
    LET inked == {k \in DOMAIN line : line[k] \notin Whitespace}
    IN  IF inked = {} THEN <<>>
        ELSE SubSeq(line, FirstOf(inked),
                    CHOOSE k \in inked : \A j \in inked : j <= k)

\* the text before the first comma
BeforeFirstComma(s) ==
    LET commas == {k \in DOMAIN s : s[k] = ","}
    IN  IF commas = {} THEN s ELSE SubSeq(s, 1, FirstOf(commas) - 1)

\* C14: whatever test.csv and the class array hold, the i-th data row of
\* submission.csv is <id_i>,<c_i>: id_i the text before the first comma of
\* the stripped (i+1)-th line of test.csv, c_i the i-th class of the array.
\* Rows are written in the order of the lines; only the first line of
\* test.csv is skipped, and every later line, a blank one too, gives an id;
\* when the cell has run to its end there is a row for each of the first
\* min(ids, classes) lines.
C14_RowsAreIdAndClass ==
    (program = "titanic" /\ Executed("t_write_header")) =>
        LET test == fs[TestCsv]
            out == fs[SubmissionCsv]
            ids == IF test = <<>> THEN 0 ELSE Cardinality(LineStarts(test)) - 1
            rows == Cardinality(LineStarts(out)) - 1
            classes == ns["classes"]
            n == IF ids < Len(classes) THEN ids ELSE Len(classes)
        IN  /\ rows <= n
            /\ pc = "t_done" => rows = n
            /\ Len(ns["id_list"]) = ids
            /\ \A i \in 1..rows :
                  NthLine(out, i + 1)
                     = BeforeFirstComma(Stripped(NthLine(test, i + 1)))
                          \o <<",">> \o Decimal(classes[i][1]) \o <<"\n">>

\* the cell has run to its end on a test.csv whose second line holds an id
\* and whose third line is blank, and has written a row for each
C14_Witness ==
    /\ program = "titanic"
    /\ pc = "t_done"
    /\ Cardinality(LineStarts(fs[TestCsv])) = 3
    /\ Stripped(NthLine(fs[TestCsv], 2)) # <<>>
    /\ Stripped(NthLine(fs[TestCsv], 3)) = <<>>
    /\ Cardinality(LineStarts(fs[SubmissionCsv])) = 3
    /\ ns["classes"][1][1] # ns["classes"][2][1]

\* instruction p ran before instruction q
RanBefore(p, q) == Executed(p) /\ FirstRun(p) < FirstRun(q)

AptInstalls == {"b_apt_htop", "b_apt_git", "b_apt_ssh", "b_apt_tmux"}
PipInstalls == {"b_pip_repo", "b_pip_gpustat"}

\* C15: the build runs the instructions in one order, each at most once:
\* FROM, WORKDIR, COPY, apt-get update, the four apt-get installs, pip
\* install -U pip, pip install ., pip install gpustat. So the working
\* directory is /usr/home when the repository is copied, the repository is
\* copied before pip install . and is the package that step installs,
\* apt-get update has run before every apt-get install, and pip install -U
\* pip before both pip package installs.
C15_BuildOrder ==
    program = "build" =>
        /\ IsPrefix(calls,
                    <<"b_from", "b_workdir", "b_copy", "b_apt_update",
                      "b_apt_htop", "b_apt_git", "b_apt_ssh", "b_apt_tmux",
                      "b_pip_upgrade", "b_pip_repo", "b_pip_gpustat">>)
        /\ Executed("b_copy") =>
              /\ RanBefore("b_workdir", "b_copy")
              /\ ns["image"].files = {[dir |-> <<"usr", "home">>,
                                       content |-> "repository"]}
        /\ Executed("b_pip_repo") => RanBefore("b_copy", "b_pip_repo")
        /\ \A p \in AptInstalls : Executed(p) => RanBefore("b_apt_update", p)
        /\ \A p \in PipInstalls : Executed(p) => RanBefore("b_pip_upgrade", p)
        /\ "image" \in DOMAIN ns =>
              /\ ns["image"].apt # {} => ns["image"].apt_lists
              /\ \A installed \in ns["image"].pip :
                    /\ installed.by_upgraded_pip
                    /\ installed.package \in {"repository", "gpustat"}

\* the build has run every instruction: the repository copied to /usr/home
\* is installed, with the four apt packages and gpustat
C15_Witness ==
    /\ program = "build"
    /\ pc = "b_done"
    /\ ns["image"].apt = {"htop", "git", "ssh", "tmux"}
    /\ ns["image"].pip = {[package |-> "repository", by_upgraded_pip |-> TRUE],
                          [package |-> "gpustat", by_upgraded_pip |-> TRUE]}

====
